---- MODULE Spec2Model ----
(***************************************************************************)
(* A model of the decoding layer of rjw-uktides: the serde hooks of        *)
(* src/src/parse.rs, the entry points of src/src/lib.rs and the value       *)
(* types of src/src/types.rs.                                               *)
(*                                                                          *)
(* Wire strings are sequences of one-character strings, so that parsing is  *)
(* done digit by digit.  A JSON value is a record of one field, named after  *)
(* its JSON type ("str", "int", "float", "bool", "arr", "obj", "null"), or   *)
(* "missing" for an absent key.  A Result is [ok |-> TRUE, val |-> v] or     *)
(* [ok |-> FALSE, err |-> e].                                                *)
(***************************************************************************)
EXTENDS Integers, Sequences, FiniteSets, TLC

VARIABLES
    call,    \* the decode call made last: [op |-> name, wire |-> JSON value]
    ret,     \* what that call returned
    stderr   \* the lines that call wrote to standard error

vars == <<call, ret, stderr>>

----------------------------------------------------------------------------
(* Bounds of the model.                                                     *)

\* Enum codes on the wire range over -MaxCode .. MaxCode.
MaxCode == 6
\* The longest station document, in features.
MaxFeatures == 2
\* The most list elements of a prediction document, over its three lists.
MaxElements == 2
\* The most digits of a fractional-seconds suffix.
MaxFrac == 2

----------------------------------------------------------------------------
(* Result<T, E>.                                                            *)

Ok(v) == [ok |-> TRUE, val |-> v]
Err(e) == [ok |-> FALSE, err |-> e]

Max(S) == CHOOSE x \in S : \A y \in S : y <= x

----------------------------------------------------------------------------
(* Characters and numbers.                                                  *)

DigitChars == <<"0", "1", "2", "3", "4", "5", "6", "7", "8", "9">>

IsDigit(c) == \E i \in 1..Len(DigitChars) : DigitChars[i] = c

DigitVal(c) == (CHOOSE i \in 1..Len(DigitChars) : DigitChars[i] = c) - 1

\* The value of a run of decimal digits.
RECURSIVE DigitsValue(_)
DigitsValue(ds) ==
    IF ds = <<>> THEN 0
    ELSE 10 * DigitsValue(SubSeq(ds, 1, Len(ds) - 1)) + DigitVal(ds[Len(ds)])

\* n written in exactly `width` decimal digits (zero padded).
RECURSIVE Pad(_, _)
Pad(n, width) ==
    IF width = 0 THEN <<>>
    ELSE Append(Pad(n \div 10, width - 1), DigitChars[(n % 10) + 1])

\* str::rfind: the 1-based position of the last occurrence of c, 0 for None.
rfind(s, c) ==
    LET idx == {i \in 1..Len(s) : s[i] = c}
    IN  IF idx = {} THEN 0 ELSE Max(idx)

\* str::split_at(idx).0 for the 1-based position pos: what is left of it.
split_left(s, pos) == SubSeq(s, 1, pos - 1)

----------------------------------------------------------------------------
(* The proleptic Gregorian calendar, as chrono and jiff compute it.         *)

IsLeap(y) == (y % 4 = 0 /\ y % 100 # 0) \/ y % 400 = 0

DaysInMonth(y, m) ==
    IF m = 2 THEN (IF IsLeap(y) THEN 29 ELSE 28)
    ELSE IF m \in {4, 6, 9, 11} THEN 30 ELSE 31

\* Days since 1970-01-01 of the civil date y-m-d.
DaysFromCivil(y, m, d) ==
    LET yy  == IF m <= 2 THEN y - 1 ELSE y
        era == yy \div 400
        yoe == yy - era * 400
        mp  == IF m > 2 THEN m - 3 ELSE m + 9
        doy == (153 * mp + 2) \div 5 + d - 1
        doe == yoe * 365 + yoe \div 4 - yoe \div 100 + doy
    IN  era * 146097 + doe - 719468

\* The civil date of a day number.
CivilFromDays(z) ==
    LET zz  == z + 719468
        era == zz \div 146097
        doe == zz - era * 146097
        yoe == (doe - doe \div 1460 + doe \div 36524 - doe \div 146096) \div 365
        doy == doe - (365 * yoe + yoe \div 4 - yoe \div 100)
        mp  == (5 * doy + 2) \div 153
        d   == doy - (153 * mp + 2) \div 5 + 1
        m   == IF mp < 10 THEN mp + 3 ELSE mp - 9
        y   == yoe + era * 400 + (IF m <= 2 THEN 1 ELSE 0)
    IN  [year |-> y, month |-> m, day |-> d]

\* 0 = Sunday; 1970-01-01 was a Thursday.
Weekday(days) == (days + 4) % 7

\* The day number of the last Sunday of month m of year y.
LastSunday(y, m) ==
    Max({DaysFromCivil(y, m, d) : d \in {dd \in 1..DaysInMonth(y, m) :
                                          Weekday(DaysFromCivil(y, m, dd)) = 0}})

----------------------------------------------------------------------------
(* Instants and zones.  A decoded datetime is the instant (day number,      *)
(* second of the day, nanosecond) and the zone it is attached to.           *)

\* Whether the instant is at or after 01:00 UTC of day d0.
AtOrAfterOne(days, secs, d0) == days > d0 \/ (days = d0 /\ secs >= 3600)

\* British Summer Time runs from 01:00 UTC on the last Sunday of March to
\* 01:00 UTC on the last Sunday of October of year y.
InSummerTime(days, secs, y) ==
    /\ AtOrAfterOne(days, secs, LastSunday(y, 3))
    /\ ~AtOrAfterOne(days, secs, LastSunday(y, 10))

\* Europe/London's offset from UTC, in seconds, at an instant.
LondonOffset(days, secs) ==
    IF InSummerTime(days, secs, CivilFromDays(days).year) THEN 3600 ELSE 0

ZoneOffset(tz, days, secs) ==
    IF tz = "Europe/London" THEN LondonOffset(days, secs) ELSE 0

\* The wall clock of the second `total` counted from the start of day `days`.
WallAt(date, sod) ==
    [year |-> date.year, month |-> date.month, day |-> date.day,
     hour |-> sod \div 3600, minute |-> (sod % 3600) \div 60,
     second |-> sod % 60]

WallOf(days, total) ==
    WallAt(CivilFromDays(days + total \div 86400), total % 86400)

\* The wall clock a zoned datetime shows: the instant moved by the zone's offset.
WallClock(dt) ==
    WallOf(dt.days, dt.secs + ZoneOffset(dt.tz, dt.days, dt.secs))

DateOf(wall) == [year |-> wall.year, month |-> wall.month, day |-> wall.day]

\* DateTime::with_timezone: the same instant in zone tz.
with_timezone(dt, tz) == [dt EXCEPT !.tz = tz]

----------------------------------------------------------------------------
(* JSON values and serde's primitive decoders.                              *)

JStr(s) == [str |-> s]
JInt(n) == [int |-> n]
\* A JSON number with a fraction, in millionths.
JFloat(micro) == [float |-> micro]
JBool(b) == [bool |-> b]
JArr(xs) == [arr |-> xs]
JObj(r) == [obj |-> r]
JNull == [null |-> TRUE]
\* A key the enclosing object does not have.
JMissing == [missing |-> TRUE]

\* The JSON type of a value, and what it holds.
T(j) == CHOOSE k \in DOMAIN j : TRUE
V(j) == j[T(j)]

InvalidType(j, exp) == Err([kind |-> "invalid_type", unexp |-> T(j), exp |-> exp])
InvalidValue(n, exp) == Err([kind |-> "invalid_value", unexp |-> n, exp |-> exp])
MissingField(name) == Err([kind |-> "missing_field", unexp |-> name, exp |-> name])
\* serde::de::Error::custom
Custom(e) == Err([kind |-> "custom", unexp |-> e, exp |-> e])

\* Result::map_err(serde::de::Error::custom)
map_err_custom(r) == IF r.ok THEN r ELSE Custom(r.err)

\* String::deserialize
deserialize_String(j) ==
    IF T(j) = "str" THEN Ok(V(j)) ELSE InvalidType(j, "a string")

\* u64::deserialize: a negative integer is an invalid value, any other JSON
\* type an invalid type.
deserialize_u64(j) ==
    IF T(j) # "int" THEN InvalidType(j, "u64")
    ELSE IF V(j) >= 0 THEN Ok(V(j))
    ELSE InvalidValue(V(j), "u64")

\* f64::deserialize, in millionths: any JSON number.
deserialize_f64(j) ==
    IF T(j) = "float" THEN Ok(V(j))
    ELSE IF T(j) = "int" THEN Ok(V(j) * 1000000)
    ELSE InvalidType(j, "f64")

\* bool::deserialize
deserialize_bool(j) ==
    IF T(j) = "bool" THEN Ok(V(j)) ELSE InvalidType(j, "a boolean")

\* Option<String>::deserialize: null and an absent key are None.
deserialize_Option_String(j) ==
    IF T(j) \in {"null", "missing"} THEN Ok(<<>>)
    ELSE IF T(j) = "str" THEN Ok(<<V(j)>>)
    ELSE InvalidType(j, "option")

Min(S) == CHOOSE x \in S : \A y \in S : x <= y

\* The index of the first error among the results rs, 0 when there is none.
FirstErr(rs) ==
    IF \A i \in 1..Len(rs) : rs[i].ok THEN 0
    ELSE Min({i \in 1..Len(rs) : ~rs[i].ok})

\* serde's visitors stop at the first failure: the first error among the
\* results rs (a sequence), or all their values.
Collect(rs) ==
    IF FirstErr(rs) = 0 THEN Ok([i \in 1..Len(rs) |-> rs[i].val])
    ELSE Err(rs[FirstErr(rs)].err)

\* A struct field: an absent key is an error, else the field's decoder decides.
Field(j, name, r) == IF T(j) = "missing" THEN MissingField(name) ELSE r

----------------------------------------------------------------------------
(* Datetime decoding.                                                       *)

\* const FORMAT: "%Y-%m-%dT%H:%M:%S", as chrono's parsed items.
FORMAT == <<"%Y", "-", "%m", "-", "%d", "T", "%H", ":", "%M", ":", "%S">>

IsNumeric(item) == item \in {"%Y", "%m", "%d", "%H", "%M", "%S"}

\* The most digits a numeric item takes; it takes at least one.
NumericWidth(item) == IF item = "%Y" THEN 4 ELSE 2

\* How many digits, at most `width`, s holds from position pos on.
DigitRun(s, pos, width) ==
    Max({k \in 0..width :
            \A j \in 0..(k - 1) : pos + j <= Len(s) /\ IsDigit(s[pos + j])})

NoFields == [i \in {"%Y", "%m", "%d", "%H", "%M", "%S"} |-> 0]

\* chrono's format::parse over FORMAT from position pos of s: the fields read
\* and the position after them, or the ParseError kind.
RECURSIVE ParseItems(_, _, _, _)
ParseNumeric(s, pos, i, fields, k) ==
    IF k = 0 THEN Err("Invalid")
    ELSE ParseItems(s, pos + k, i + 1,
             [fields EXCEPT ![FORMAT[i]] = DigitsValue(SubSeq(s, pos, pos + k - 1))])

ParseItems(s, pos, i, fields) ==
    IF i > Len(FORMAT) THEN Ok([fields |-> fields, pos |-> pos])
    ELSE IF pos > Len(s) THEN Err("TooShort")
    ELSE IF IsNumeric(FORMAT[i])
    THEN ParseNumeric(s, pos, i, fields, DigitRun(s, pos, NumericWidth(FORMAT[i])))
    ELSE IF s[pos] # FORMAT[i] THEN Err("Invalid")
    ELSE ParseItems(s, pos + 1, i + 1, fields)

\* The instant `total` seconds after the start of day `days`.
Normalize(dt, total) ==
    [dt EXCEPT !.days = dt.days + total \div 86400, !.secs = total % 86400]

\* The instant moved back by an offset of `off` seconds east of UTC.
ShiftSeconds(dt, off) == Normalize(dt, dt.secs - off)

\* Parsed::to_naive_datetime: the fields must name a real date and time.
FieldsInRange(f) ==
    /\ f["%m"] \in 1..12
    /\ f["%d"] \in 1..DaysInMonth(f["%Y"], f["%m"])
    /\ f["%H"] \in 0..23
    /\ f["%M"] \in 0..59
    /\ f["%S"] \in 0..59

\* The UTC instant the fields name.
UtcInstant(f, nanos) ==
    [days  |-> DaysFromCivil(f["%Y"], f["%m"], f["%d"]),
     secs  |-> f["%H"] * 3600 + f["%M"] * 60 + f["%S"],
     nanos |-> nanos,
     tz    |-> "UTC"]

\* The whole of s must have matched, and name a real date and time.
ResolveUtc(s, p) ==
    IF ~p.ok THEN p
    ELSE IF p.val.pos <= Len(s) THEN Err("TooLong")
    ELSE IF ~FieldsInRange(p.val.fields) THEN Err("OutOfRange")
    ELSE Ok(UtcInstant(p.val.fields, 0))

\* Utc.datetime_from_str(s, FORMAT)
datetime_from_str(s) == ResolveUtc(s, ParseItems(s, 1, 1, NoFields))

\* value.rfind('.').map_or_else(|| value.as_str(), |idx| value.split_at(idx).0)
left_of(value, idx) == IF idx = 0 THEN value ELSE split_left(value, idx)

\* A faulty variant of date_part: the fraction is left on the string.
date_part_unsplit(value) == value

\* The part of the string before its last '.', or all of it when it has none.
date_part(value) == left_of(value, rfind(value, "."))

\* A faulty variant of parse_without_tz: the text is read as Europe/London
\* local time rather than as UTC.
local_to_utc(r) ==
    IF r.ok THEN Ok(ShiftSeconds(r.val, LondonOffset(r.val.days, r.val.secs)))
    ELSE r

parse_without_tz_local(value) ==
    IF ~value.ok THEN value
    ELSE local_to_utc(map_err_custom(datetime_from_str(date_part(value.val))))

\* The body of deserialize_datetime_without_tz once the String is read.
parse_without_tz(value) ==
    IF ~value.ok THEN value
    ELSE map_err_custom(datetime_from_str(date_part(value.val)))

\* fn deserialize_datetime_without_tz: what is left of the last '.' of the
\* string is parsed as a UTC datetime.
deserialize_datetime_without_tz(j) == parse_without_tz(deserialize_String(j))

\* DateTime<Utc>::date_naive
date_naive(dt) == DateOf(WallClock(dt))

\* The match of deserialize_date_without_tz: [result, the lines it writes to
\* standard error].
match_datetime(datetime) ==
    IF datetime.ok
    THEN [result |-> Ok(date_naive(datetime.val)), eprintln |-> <<>>]
    ELSE [result |-> datetime,
          eprintln |-> <<"Failed to parse naive date as naive datetime">>]

\* fn deserialize_date_without_tz
deserialize_date_without_tz(j) ==
    match_datetime(deserialize_datetime_without_tz(j))

Pow10(k) == IF k = 0 THEN 1 ELSE 10 * (IF k = 1 THEN 1 ELSE 10 *
            (IF k = 2 THEN 1 ELSE 10 * (IF k = 3 THEN 1 ELSE 10 *
            (IF k = 4 THEN 1 ELSE 10 * (IF k = 5 THEN 1 ELSE 10 *
            (IF k = 6 THEN 1 ELSE 10 * (IF k = 7 THEN 1 ELSE 10 *
            (IF k = 8 THEN 1 ELSE 10))))))))

\* The digits of a fraction as nanoseconds (nine digits are read at most).
FractionNanos(ds) ==
    IF Len(ds) >= 9 THEN DigitsValue(SubSeq(ds, 1, 9))
    ELSE DigitsValue(ds) * Pow10(9 - Len(ds))

OffsetSeconds(sign, hh, mm) ==
    IF mm > 59 \/ hh > 23 THEN Err("OutOfRange")
    ELSE Ok(IF sign = "-" THEN 0 - (hh * 3600 + mm * 60) ELSE hh * 3600 + mm * 60)

\* "Z", or a numeric offset "+HH:MM" / "-HH:MM", from position pos to the end
\* of s: the offset in seconds.
ParseOffset(s, pos) ==
    IF pos > Len(s) THEN Err("TooShort")
    ELSE IF pos = Len(s) /\ s[pos] \in {"Z", "z"} THEN Ok(0)
    ELSE IF /\ pos + 5 = Len(s)
            /\ s[pos] \in {"+", "-"}
            /\ \A k \in {1, 2, 4, 5} : IsDigit(s[pos + k])
            /\ s[pos + 3] = ":"
         THEN OffsetSeconds(s[pos], DigitsValue(SubSeq(s, pos + 1, pos + 2)),
                            DigitsValue(SubSeq(s, pos + 4, pos + 5)))
    ELSE Err("Invalid")

\* The digits of the fraction at position pos of s; -1 when s has no '.' there.
FractionLen(s, pos) ==
    IF pos <= Len(s) /\ s[pos] = "." THEN DigitRun(s, pos + 1, Len(s)) ELSE 0 - 1

ResolveOffset(fields, nanos, off) ==
    IF ~off.ok THEN off
    ELSE IF ~FieldsInRange(fields) THEN Err("OutOfRange")
    ELSE Ok(ShiftSeconds(UtcInstant(fields, nanos), off.val))

\* After the date and time: an optional fraction of n digits, which is kept,
\* then the offset.
ResolveFraction(s, pos, fields, n) ==
    IF n = 0 THEN Err("Invalid")
    ELSE IF n < 0 THEN ResolveOffset(fields, 0, ParseOffset(s, pos))
    ELSE ResolveOffset(fields, FractionNanos(SubSeq(s, pos + 1, pos + n)),
                       ParseOffset(s, pos + 1 + n))

ResolveRfc3339(s, p) ==
    IF ~p.ok THEN p
    ELSE ResolveFraction(s, p.val.pos, p.val.fields, FractionLen(s, p.val.pos))

\* chrono's parser of a DateTime from RFC 3339 text.
parse_rfc3339(s) == ResolveRfc3339(s, ParseItems(s, 1, 1, NoFields))

parse_zulu(value) ==
    IF ~value.ok THEN value ELSE map_err_custom(parse_rfc3339(value.val))

\* The serde decoder of a plain DateTime<Utc> field, as
\* TidalHeightOccurence::date_time is: RFC 3339 text, converted to UTC.
deserialize_DateTime_Utc(j) == parse_zulu(deserialize_String(j))

----------------------------------------------------------------------------
(* Enum decoders.                                                           *)

\* A faulty variant of match_TidalEventType: every code but 0 is LowWater.
match_TidalEventType_lenient(num) ==
    IF ~num.ok THEN num
    ELSE IF num.val = 0 THEN Ok("HighWater")
    ELSE Ok("LowWater")

match_TidalEventType(num) ==
    IF ~num.ok THEN num
    ELSE IF num.val = 0 THEN Ok("HighWater")
    ELSE IF num.val = 1 THEN Ok("LowWater")
    ELSE InvalidValue(num.val, "an integer either 0 or 1")

\* impl Deserialize for TidalEventType
TidalEventType_deserialize(j) == match_TidalEventType(deserialize_u64(j))

\* A faulty variant of match_LunarPhaseType: the codes counted from 0.
match_LunarPhaseType_zero_based(num) ==
    IF ~num.ok THEN num
    ELSE IF num.val = 0 THEN Ok("NewMoon")
    ELSE IF num.val = 1 THEN Ok("FirstQuarter")
    ELSE IF num.val = 2 THEN Ok("FullMoon")
    ELSE IF num.val = 3 THEN Ok("LastQuarter")
    ELSE InvalidValue(num.val, "an integer from 1 to 4, inclusive.")

match_LunarPhaseType(num) ==
    IF ~num.ok THEN num
    ELSE IF num.val = 1 THEN Ok("NewMoon")
    ELSE IF num.val = 2 THEN Ok("FirstQuarter")
    ELSE IF num.val = 3 THEN Ok("FullMoon")
    ELSE IF num.val = 4 THEN Ok("LastQuarter")
    ELSE InvalidValue(num.val, "an integer from 1 to 4, inclusive.")

\* impl Deserialize for LunarPhaseType
LunarPhaseType_deserialize(j) == match_LunarPhaseType(deserialize_u64(j))

----------------------------------------------------------------------------
(* The station document.  A struct's keys are decoded in the order of its    *)
(* fields; the first failure is the struct's.                                *)

\* A faulty variant of Coordinates_build: latitude read first.
Coordinates_build_latitude_first(c) ==
    IF c.ok THEN Ok([longitude |-> c.val[2], latitude |-> c.val[1]]) ELSE c

Coordinates_build(c) ==
    IF c.ok THEN Ok([longitude |-> c.val[1], latitude |-> c.val[2]]) ELSE c

\* struct Coordinates, read from a two-element array, longitude first.
Coordinates_deserialize(j) ==
    IF T(j) # "arr" THEN InvalidType(j, "struct Coordinates")
    ELSE IF Len(V(j)) # 2
    THEN Err([kind |-> "invalid_length", unexp |-> Len(V(j)),
              exp |-> "struct Coordinates with 2 elements"])
    ELSE Coordinates_build(
             Collect(<<deserialize_f64(V(j)[1]), deserialize_f64(V(j)[2])>>))

\* The characters that occur in station ids, in the order of their bytes.
IdChars ==
    <<"0", "1", "2", "3", "4", "5", "6", "7", "8", "9", "A", "B", "C">>

\* The place of a character in the order of bytes.
CharRank(c) == CHOOSE i \in 1..Len(IdChars) : IdChars[i] = c

\* str::cmp: the strings compared byte by byte, a proper prefix being less.
RECURSIVE str_cmp(_, _)
str_cmp(a, b) ==
    IF a = <<>> /\ b = <<>> THEN "Equal"
    ELSE IF a = <<>> THEN "Less"
    ELSE IF b = <<>> THEN "Greater"
    ELSE IF CharRank(Head(a)) < CharRank(Head(b)) THEN "Less"
    ELSE IF CharRank(Head(a)) > CharRank(Head(b)) THEN "Greater"
    ELSE str_cmp(Tail(a), Tail(b))

\* struct StationId(pub String)
StationId_deserialize(j) == deserialize_String(j)

StationFeatureGeometry_build(c) ==
    IF c.ok THEN Ok([coordinates |-> c.val[2]]) ELSE c

\* struct StationFeatureGeometry
StationFeatureGeometry_deserialize(j) ==
    IF T(j) # "obj" THEN InvalidType(j, "struct StationFeatureGeometry")
    ELSE StationFeatureGeometry_build(Collect(
             <<Field(V(j).type, "type", deserialize_String(V(j).type)),
               Field(V(j).coordinates, "coordinates",
                     Coordinates_deserialize(V(j).coordinates))>>))

StationFeatureProperties_build(c) ==
    IF c.ok
    THEN Ok([id |-> c.val[1], name |-> c.val[2], country |-> c.val[3],
             continuous_heights_available |-> c.val[4]])
    ELSE c

\* struct StationFeatureProperties (the wire keys are PascalCase)
StationFeatureProperties_deserialize(j) ==
    IF T(j) # "obj" THEN InvalidType(j, "struct StationFeatureProperties")
    ELSE StationFeatureProperties_build(Collect(
             <<Field(V(j).Id, "Id", StationId_deserialize(V(j).Id)),
               Field(V(j).Name, "Name", deserialize_String(V(j).Name)),
               Field(V(j).Country, "Country", deserialize_String(V(j).Country)),
               Field(V(j).ContinuousHeightsAvailable,
                     "ContinuousHeightsAvailable",
                     deserialize_bool(V(j).ContinuousHeightsAvailable))>>))

StationFeature_build(c) ==
    IF c.ok THEN Ok([geometry |-> c.val[2], properties |-> c.val[3]]) ELSE c

\* struct StationFeature
\* A faulty variant of StationFeature_deserialize: a feature whose type is
\* not "Feature" is refused.
StationFeature_checked_type(j) ==
    IF T(j) # "obj" THEN InvalidType(j, "struct StationFeature")
    ELSE IF V(j).type # JStr("Feature")
    THEN Custom(<<"unknown variant", V(j).type>>)
    ELSE StationFeature_build(Collect(
             <<Field(V(j).type, "type", deserialize_String(V(j).type)),
               Field(V(j).geometry, "geometry",
                     StationFeatureGeometry_deserialize(V(j).geometry)),
               Field(V(j).properties, "properties",
                     StationFeatureProperties_deserialize(V(j).properties))>>))

StationFeature_deserialize(j) ==
    IF T(j) # "obj" THEN InvalidType(j, "struct StationFeature")
    ELSE StationFeature_build(Collect(
             <<Field(V(j).type, "type", deserialize_String(V(j).type)),
               Field(V(j).geometry, "geometry",
                     StationFeatureGeometry_deserialize(V(j).geometry)),
               Field(V(j).properties, "properties",
                     StationFeatureProperties_deserialize(V(j).properties))>>))

\* The closure of deserialize_stations: one Station from one StationFeature.
StationOf(feature) ==
    [id       |-> feature.properties.id,
     name     |-> feature.properties.name,
     country  |-> feature.properties.country,
     location |-> feature.geometry.coordinates,
     continuous_heights_available |->
         feature.properties.continuous_heights_available]

\* The stations in ascending order of id, each id once.
RECURSIVE SortedById(_)
InsertById(station, sorted) ==
    [i \in 1..(Len(sorted) + 1) |->
        IF i <= Cardinality({k \in 1..Len(sorted) :
                                str_cmp(sorted[k].id, station.id) = "Less"})
        THEN sorted[i]
        ELSE IF i = 1 + Cardinality({k \in 1..Len(sorted) :
                                str_cmp(sorted[k].id, station.id) = "Less"})
        THEN station
        ELSE sorted[i - 1]]

SortedById(stations) ==
    IF stations = <<>> THEN <<>>
    ELSE IF \E k \in 2..Len(stations) : stations[k].id = Head(stations).id
    THEN SortedById(Tail(stations))
    ELSE InsertById(Head(stations), SortedById(Tail(stations)))

\* A faulty variant of map_stations: the stations come out sorted by id and
\* without repeats.
map_stations_sorted(features) ==
    IF ~features.ok THEN features
    ELSE Ok(SortedById([i \in 1..Len(features.val) |-> StationOf(features.val[i])]))

\* features.into_iter().map(..).collect()
map_stations(features) ==
    IF ~features.ok THEN features
    ELSE Ok([i \in 1..Len(features.val) |-> StationOf(features.val[i])])

\* A faulty variant of StationFeatures_deserialize: a feature that fails to
\* decode is left out of the list.
StationFeatures_skip_malformed(j) ==
    IF T(j) # "arr" THEN InvalidType(j, "a sequence")
    ELSE Collect(SelectSeq([i \in 1..Len(V(j)) |-> StationFeature_deserialize(V(j)[i])],
                           LAMBDA r : r.ok))

\* Vec<StationFeature>::deserialize
StationFeatures_deserialize(j) ==
    IF T(j) # "arr" THEN InvalidType(j, "a sequence")
    ELSE Collect([i \in 1..Len(V(j)) |-> StationFeature_deserialize(V(j)[i])])

\* fn deserialize_stations: every feature is decoded, in order, and the first
\* failure fails the list.
deserialize_stations(j) == map_stations(StationFeatures_deserialize(j))

StationsData_build(features) ==
    IF features.ok THEN Ok([features |-> features.val]) ELSE features

\* struct StationsData: "type" is skipped, "features" goes through
\* deserialize_stations.
StationsData_deserialize(j) ==
    IF T(j) # "obj" THEN InvalidType(j, "struct StationsData")
    ELSE StationsData_build(
             Field(V(j).features, "features", deserialize_stations(V(j).features)))

\* enum Error { Parse(serde_json::Error) }
Error_Parse(e) == [variant |-> "Parse", source |-> e]

\* .map_err(Error::Parse)
map_err_Parse(r) == IF r.ok THEN r ELSE Err(Error_Parse(r.err))

\* .map(|sd: StationsData| sd.features)
map_features(sd) == IF sd.ok THEN Ok(sd.val.features) ELSE sd

\* pub fn stations_from_reader
stations_from_reader(doc) ==
    map_err_Parse(map_features(StationsData_deserialize(doc)))

----------------------------------------------------------------------------
(* The prediction document.  A decoder whose hook may write to standard     *)
(* error returns [result, eprintln].                                        *)

\* struct Metres(pub f64)
Metres_deserialize(j) == deserialize_f64(j)

LunarPhase_build(c) ==
    IF c.ok THEN Ok([date_time |-> c.val[1], lunar_phase_type |-> c.val[2]])
    ELSE c

\* struct LunarPhase
LunarPhase_deserialize(j) ==
    IF T(j) # "obj" THEN InvalidType(j, "struct LunarPhase")
    ELSE LunarPhase_build(Collect(
             <<Field(V(j).dateTime, "dateTime",
                     deserialize_datetime_without_tz(V(j).dateTime)),
               Field(V(j).lunarPhaseType, "lunarPhaseType",
                     LunarPhaseType_deserialize(V(j).lunarPhaseType))>>))

TidalEvent_build(c) ==
    IF c.ok
    THEN Ok([date |-> c.val[1], date_time |-> c.val[2],
             event_type |-> c.val[3], height |-> c.val[4],
             is_approximate_height |-> c.val[5],
             is_approximate_time |-> c.val[6]])
    ELSE c

\* The key "date" of a tidal event: absent, or read by
\* deserialize_date_without_tz.
TidalEvent_date_field(j) ==
    IF T(j) = "missing"
    THEN [result |-> MissingField("date"), eprintln |-> <<>>]
    ELSE deserialize_date_without_tz(j)

TidalEvent_fields(j, date) ==
    [result |-> TidalEvent_build(Collect(
         <<date.result,
           Field(V(j).dateTime, "dateTime",
                 deserialize_datetime_without_tz(V(j).dateTime)),
           Field(V(j).eventType, "eventType",
                 TidalEventType_deserialize(V(j).eventType)),
           Field(V(j).height, "height", Metres_deserialize(V(j).height)),
           deserialize_Option_String(V(j).isApproximateHeight),
           deserialize_Option_String(V(j).isApproximateTime)>>)),
     eprintln |-> date.eprintln]

\* struct TidalEvent of parse.rs: `date` is a field of its own, read from the
\* wire key "date" by deserialize_date_without_tz.
TidalEvent_deserialize(j) ==
    IF T(j) # "obj"
    THEN [result |-> InvalidType(j, "struct TidalEvent"), eprintln |-> <<>>]
    ELSE TidalEvent_fields(j, TidalEvent_date_field(V(j).date))

\* impl TidalEvent { pub fn date(&self) }: the date of date_time in the zone
\* it is attached to.
TidalEvent_date(event) == DateOf(WallClock(event.date_time))

TidalHeightOccurence_build(c) ==
    IF c.ok THEN Ok([date_time |-> c.val[1], height |-> c.val[2]]) ELSE c

\* struct TidalHeightOccurence
TidalHeightOccurence_deserialize(j) ==
    IF T(j) # "obj" THEN InvalidType(j, "struct TidalHeightOccurence")
    ELSE TidalHeightOccurence_build(Collect(
             <<Field(V(j).dateTime, "dateTime",
                     deserialize_DateTime_Utc(V(j).dateTime)),
               Field(V(j).height, "height", Metres_deserialize(V(j).height))>>))

\* Vec<LunarPhase>::deserialize
LunarPhaseList_deserialize(j) ==
    IF T(j) # "arr" THEN InvalidType(j, "a sequence")
    ELSE Collect([i \in 1..Len(V(j)) |-> LunarPhase_deserialize(V(j)[i])])

\* A faulty variant of TidalHeightOccurenceList_deserialize: an empty list is
\* refused.
TidalHeightOccurenceList_nonempty(j) ==
    IF T(j) # "arr" THEN InvalidType(j, "a sequence")
    ELSE IF Len(V(j)) = 0
    THEN Err([kind |-> "invalid_length", unexp |-> 0, exp |-> "at least 1 element"])
    ELSE Collect([i \in 1..Len(V(j)) |->
                     TidalHeightOccurence_deserialize(V(j)[i])])

\* A faulty variant of TidalHeightOccurenceList_deserialize: an occurrence
\* that fails to decode is left out of the list.
TidalHeightOccurenceList_skip_malformed(j) ==
    IF T(j) # "arr" THEN InvalidType(j, "a sequence")
    ELSE Collect(SelectSeq([i \in 1..Len(V(j)) |->
                               TidalHeightOccurence_deserialize(V(j)[i])],
                           LAMBDA r : r.ok))

\* Vec<TidalHeightOccurence>::deserialize
TidalHeightOccurenceList_deserialize(j) ==
    IF T(j) # "arr" THEN InvalidType(j, "a sequence")
    ELSE Collect([i \in 1..Len(V(j)) |->
                     TidalHeightOccurence_deserialize(V(j)[i])])

RECURSIVE Flatten(_)
Flatten(lines) ==
    IF lines = <<>> THEN <<>> ELSE Head(lines) \o Flatten(Tail(lines))

\* The events are decoded in order up to the first failure; what the decoded
\* ones wrote to standard error stays written.
TidalEventList_collect(es) ==
    [result   |-> Collect([i \in 1..Len(es) |-> es[i].result]),
     eprintln |-> Flatten([i \in 1..(IF FirstErr([k \in 1..Len(es) |-> es[k].result]) = 0
                                      THEN Len(es)
                                      ELSE FirstErr([k \in 1..Len(es) |-> es[k].result]))
                              |-> es[i].eprintln])]

\* Vec<TidalEvent>::deserialize
TidalEventList_deserialize(j) ==
    IF T(j) = "missing"
    THEN [result |-> MissingField("tidalEventList"), eprintln |-> <<>>]
    ELSE IF T(j) # "arr"
    THEN [result |-> InvalidType(j, "a sequence"), eprintln |-> <<>>]
    ELSE TidalEventList_collect(
             [i \in 1..Len(V(j)) |-> TidalEvent_deserialize(V(j)[i])])

TidePredictions_build(before, rest) ==
    IF rest.ok
    THEN Ok([footer_note |-> before[1], lunar_phase_list |-> before[2],
             tidal_event_list |-> rest.val[1],
             tidal_height_occurrence_list |-> rest.val[2]])
    ELSE rest

\* The keys before the event list have been decoded (before); the event list
\* and the height list follow.
TidePredictions_rest(before, events, heights) ==
    IF ~before.ok THEN [result |-> before, eprintln |-> <<>>]
    ELSE [result   |-> TidePredictions_build(before.val,
                           Collect(<<events.result, heights>>)),
          eprintln |-> events.eprintln]

\* struct TidePredictions (the wire keys are camelCase), its keys read in the
\* order footerNote, lunarPhaseList, tidalEventList,
\* tidalHeightOccurrenceList; the first failure ends the decoding.
TidePredictions_deserialize(j) ==
    IF T(j) # "obj"
    THEN [result |-> InvalidType(j, "struct TidePredictions"), eprintln |-> <<>>]
    ELSE TidePredictions_rest(
             Collect(<<Field(V(j).footerNote, "footerNote",
                             deserialize_String(V(j).footerNote)),
                       Field(V(j).lunarPhaseList, "lunarPhaseList",
                             LunarPhaseList_deserialize(V(j).lunarPhaseList))>>),
             TidalEventList_deserialize(V(j).tidalEventList),
             Field(V(j).tidalHeightOccurrenceList, "tidalHeightOccurrenceList",
                   TidalHeightOccurenceList_deserialize(
                       V(j).tidalHeightOccurrenceList)))

wrap_Parse(tp) ==
    [result |-> map_err_Parse(tp.result), eprintln |-> tp.eprintln]

\* pub fn tides_from_reader: [result, eprintln].
tides_from_reader(doc) == wrap_Parse(TidePredictions_deserialize(doc))

----------------------------------------------------------------------------
(* The wire values the calls are made with.                                 *)

\* A civil datetime as the service writes it: "YYYY-MM-DDTHH:MM:SS".
CivilText(date, time) ==
    Pad(date[1], 4) \o <<"-">> \o Pad(date[2], 2) \o <<"-">> \o Pad(date[3], 2)
        \o <<"T">> \o Pad(time[1], 2) \o <<":">> \o Pad(time[2], 2)
        \o <<":">> \o Pad(time[3], 2)

\* Winter and summer dates, both days on which the clocks change (30 March
\* and 26 October 2025), a leap day and the last day of a year.
SampleDates ==
    {<<2025, 1, 15>>, <<2025, 8, 17>>, <<2025, 3, 30>>, <<2025, 10, 26>>,
     <<2024, 2, 29>>, <<2025, 12, 31>>}

SampleTimes ==
    {<<0, 0, 0>>, <<0, 59, 59>>, <<1, 0, 0>>, <<5, 14, 18>>, <<23, 0, 0>>,
     <<23, 59, 59>>}

FracDigits == {"0", "5", "9"}

\* The non-empty digit strings of at most MaxFrac digits.
Fractions == UNION {[1..n -> FracDigits] : n \in 1..MaxFrac}

\* Suffixes that are a '.' and digits, and two that hold a second '.'.
DigitSuffixes == {<<".">> \o f : f \in Fractions}
DottedSuffixes == {<<".", "5", ".", "5">>, <<".", "0", ".", "9", "9">>}

CivilWires == {CivilText(d, t) : d \in SampleDates, t \in SampleTimes}

\* Text that is no civil datetime.
MalformedWires ==
    {<<>>, <<"b", "a", "d">>,
     CivilText(<<2025, 13, 1>>, <<0, 0, 0>>),
     CivilText(<<2025, 2, 30>>, <<0, 0, 0>>),
     CivilText(<<2025, 8, 17>>, <<24, 0, 0>>),
     CivilText(<<2025, 8, 17>>, <<5, 14, 18>>) \o <<"Z">>,
     SubSeq(CivilText(<<2025, 8, 17>>, <<5, 14, 18>>), 1, 16)}

NonStrings == {JInt(1), JNull, JBool(TRUE)}

CivilInputs ==
    {JStr(w \o x) : w \in CivilWires,
                    x \in {<<>>} \cup DigitSuffixes \cup DottedSuffixes}
        \cup {JStr(w) : w \in MalformedWires} \cup NonStrings

ZuluInputs ==
    {JStr(w \o x \o z) : w \in CivilWires, x \in {<<>>} \cup DigitSuffixes,
                         z \in {<<"Z">>, <<"+", "0", "1", ":", "0", "0">>}}
        \cup {JStr(w) : w \in MalformedWires \cup CivilWires} \cup NonStrings

CodeInputs ==
    {JInt(n) : n \in (0 - MaxCode)..MaxCode}
        \cup {JFloat(1500000), JStr(<<"1">>), JNull}

\* Station features.
FeatureJ(type, gtype, coords, id, name, country, cha) ==
    JObj([type       |-> type,
          geometry   |-> JObj([type |-> gtype, coordinates |-> coords]),
          properties |-> JObj([Id |-> id, Name |-> name, Country |-> country,
                               ContinuousHeightsAvailable |-> cha])])

Point(lon, lat) == JArr(<<JFloat(lon), JFloat(lat)>>)

Sandown ==
    FeatureJ(JStr("Feature"), JStr("Point"), Point(-1150000, 50650000),
             JStr(<<"0", "0", "5", "3">>), JStr("Sandown"), JStr("England"),
             JBool(TRUE))

WellFormedFeatures ==
    {Sandown,
     FeatureJ(JStr("Feature"), JStr("Point"), Point(-3166666, 58633333),
              JStr(<<"0", "2", "9", "7", "A">>), JStr("Gills Bay"),
              JStr("Scotland"), JBool(TRUE)),
     FeatureJ(JStr("Feature"), JStr("Point"), Point(1416666, 51333333),
              JStr(<<"5", "3">>), JStr("RAMSGATE"), JStr("England"),
              JBool(FALSE)),
     FeatureJ(JStr("Feature"), JStr("Point"), JArr(<<JInt(0), JFloat(49716666)>>),
              JStr(<<"1", "6", "0", "3">>), JStr("BRAYE"),
              JStr("Channel Islands"), JBool(TRUE))}

\* Well formed but for a country that is none of the seven.
UnknownCountryFeatures ==
    {[Sandown EXCEPT !.obj.properties.obj.Country = JStr("Cornwall")]}

MalformedFeatures ==
    {[Sandown EXCEPT !.obj.geometry = JMissing],
     [Sandown EXCEPT !.obj.geometry = JNull],
     [Sandown EXCEPT !.obj.geometry.obj.coordinates = JStr("here")],
     [Sandown EXCEPT !.obj.geometry.obj.coordinates = JArr(<<JFloat(-1150000)>>)],
     [Sandown EXCEPT !.obj.geometry.obj.coordinates = JMissing],
     [Sandown EXCEPT !.obj.properties = JMissing],
     [Sandown EXCEPT !.obj.properties.obj.Id = JInt(53)],
     [Sandown EXCEPT !.obj.properties.obj.Name = JMissing],
     [Sandown EXCEPT !.obj.properties.obj.Country = JNull],
     [Sandown EXCEPT !.obj.properties.obj.ContinuousHeightsAvailable = JStr("true")]}

Features == WellFormedFeatures \cup UnknownCountryFeatures \cup MalformedFeatures

StationsDocs ==
    {JObj([type |-> JStr("FeatureCollection"), features |-> JArr(fs)]) :
        fs \in UNION {[1..n -> Features] : n \in 0..MaxFeatures}}
        \cup {JObj([type |-> JStr("FeatureCollection"), features |-> JMissing]),
              JObj([type |-> JStr("FeatureCollection"), features |-> JNull]),
              JNull}

\* The object j with another value under its key "type".
with_type(j, type) == JObj([V(j) EXCEPT !.type = type])

\* The feature f with other type discriminators for itself and its geometry.
retype_feature(f, type, gtype) ==
    JObj([V(f) EXCEPT !.type = type, !.geometry = with_type(@, gtype)])

\* Well-formed features under the type discriminators of the service and
\* under other strings.
RetypedFeatures ==
    {retype_feature(f, type, gtype) :
        f \in {g \in WellFormedFeatures :
                  V(V(g).properties).Country = JStr("England")},
        type \in {JStr("Feature"), JStr("Other")},
        gtype \in {JStr("Point"), JStr("Polygon")}}

\* Station documents of such features, the document's own discriminator the
\* one of the service, another string or the empty string.
RetypedDocs ==
    {JObj([type |-> type, features |-> JArr(fs)]) :
        type \in {JStr("FeatureCollection"), JStr("Other"), JStr("")},
        fs \in UNION {[1..n -> RetypedFeatures] : n \in 0..MaxFeatures}}

\* Elements of the three lists of a prediction document.
LunarJ(dt, type) == JObj([dateTime |-> dt, lunarPhaseType |-> type])

EventJ(date, dt, type, height) ==
    JObj([date |-> date, dateTime |-> dt, eventType |-> type, height |-> height,
          isApproximateHeight |-> JNull, isApproximateTime |-> JNull])

HeightJ(dt, height) == JObj([dateTime |-> dt, height |-> height])

Winter == CivilText(<<2025, 1, 15>>, <<5, 14, 18>>)
Summer == CivilText(<<2025, 8, 17>>, <<23, 30, 0>>)
WinterDay == CivilText(<<2025, 1, 15>>, <<0, 0, 0>>)
SummerDay == CivilText(<<2025, 8, 17>>, <<0, 0, 0>>)
Half == <<".", "5">>

WellFormedLunar ==
    {LunarJ(JStr(Winter), JInt(1)), LunarJ(JStr(Winter \o Half), JInt(3)),
     LunarJ(JStr(Summer), JInt(2)), LunarJ(JStr(Summer \o Half), JInt(4))}

MalformedLunar ==
    {LunarJ(JStr(<<"b", "a", "d">>), JInt(1)), LunarJ(JStr(Winter), JInt(5)),
     LunarJ(JStr(Winter), JMissing)}

WellFormedEvents ==
    {EventJ(JStr(WinterDay), JStr(Winter), JInt(0), JFloat(3531731)),
     EventJ(JStr(SummerDay), JStr(Summer), JInt(1), JFloat(1541595)),
     EventJ(JStr(WinterDay), JStr(Summer \o Half), JInt(1), JInt(2))}

MalformedEvents ==
    {EventJ(JStr(<<"b", "a", "d">>), JStr(Winter), JInt(0), JFloat(3531731)),
     EventJ(JStr(WinterDay), JStr(<<"b", "a", "d">>), JInt(0), JFloat(3531731)),
     EventJ(JStr(WinterDay), JStr(Winter), JInt(2), JFloat(3531731)),
     EventJ(JStr(WinterDay), JStr(Winter), JInt(0), JMissing)}

WellFormedHeights ==
    {HeightJ(JStr(Winter \o <<"Z">>), JFloat(1657104)),
     HeightJ(JStr(Summer \o <<"Z">>), JFloat(1599734)),
     HeightJ(JStr(Summer \o Half \o <<"Z">>), JFloat(1599734))}

MalformedHeights ==
    {HeightJ(JStr(<<"b", "a", "d">>), JFloat(1657104)),
     HeightJ(JStr(Winter \o <<"Z">>), JMissing)}

LunarElements == WellFormedLunar \cup MalformedLunar
EventElements == WellFormedEvents \cup MalformedEvents
HeightElements == WellFormedHeights \cup MalformedHeights

Footers == {JStr("High waters - important note."), JMissing}

TidesDoc(footer, lunar, events, heights) ==
    JObj([footerNote |-> footer, lunarPhaseList |-> JArr(lunar),
          tidalEventList |-> JArr(events),
          tidalHeightOccurrenceList |-> JArr(heights)])

----------------------------------------------------------------------------
(* Equality and ordering of the value types.                                *)

\* A faulty variant of Station_eq: every field is compared, as a derived
\* PartialEq would.
Station_eq_all_fields(a, b) == a = b

\* impl PartialEq for Station
Station_eq(a, b) == a.id = b.id

\* impl Ord for Station
Station_cmp(a, b) == str_cmp(a.id, b.id)

\* impl PartialOrd for Station
Station_partial_cmp(a, b) == <<Station_cmp(a, b)>>

\* The stations that are compared: those of the well-formed features, one
\* whose id is a prefix of another's, and some that share the id "0053" and
\* differ in one other field.
DecodedStations ==
    {StationOf(StationFeature_deserialize(f).val) : f \in WellFormedFeatures}

SandownStation == StationOf(StationFeature_deserialize(Sandown).val)

SampleStations ==
    DecodedStations \cup
        {[SandownStation EXCEPT !.id = <<"0", "2", "9", "7">>],
         [SandownStation EXCEPT !.name = "Ventnor"],
         [SandownStation EXCEPT !.country = "Wales"],
         [SandownStation EXCEPT !.location.latitude = 0],
         [SandownStation EXCEPT !.continuous_heights_available = FALSE]}

\* The order of two integers.
int_cmp(x, y) == IF x < y THEN "Less" ELSE IF x > y THEN "Greater" ELSE "Equal"

\* The order of two instants: by day, then second, then nanosecond; the zone
\* a datetime is attached to plays no part.
instant_cmp(x, y) ==
    IF x.days # y.days THEN int_cmp(x.days, y.days)
    ELSE IF x.secs # y.secs THEN int_cmp(x.secs, y.secs)
    ELSE int_cmp(x.nanos, y.nanos)

\* A faulty variant of TidalEvent_eq: every field is compared.
TidalEvent_eq_all_fields(a, b) == a = b

\* impl PartialEq for TidalEvent
TidalEvent_eq(a, b) == instant_cmp(a.date_time, b.date_time) = "Equal"

\* impl Ord for TidalEvent
TidalEvent_cmp(a, b) == instant_cmp(a.date_time, b.date_time)

\* impl PartialOrd for TidalEvent
TidalEvent_partial_cmp(a, b) == <<TidalEvent_cmp(a, b)>>

\* The events that are compared: those of the well-formed wire events (two of
\* which share an instant and differ in date, type and height), and some that
\* differ from the first in one field.
DecodedEvents ==
    {TidalEvent_deserialize(e).result.val : e \in WellFormedEvents}

WinterEvent ==
    TidalEvent_deserialize(
        EventJ(JStr(WinterDay), JStr(Winter), JInt(0), JFloat(3531731))).result.val

SampleEvents ==
    DecodedEvents \cup
        {[WinterEvent EXCEPT !.date_time.tz = "Europe/London"],
         [WinterEvent EXCEPT !.date_time.nanos = 500000000],
         [WinterEvent EXCEPT !.date_time.secs = 0],
         [WinterEvent EXCEPT !.event_type = "LowWater"],
         [WinterEvent EXCEPT !.height = 0],
         [WinterEvent EXCEPT !.is_approximate_height = <<"true">>],
         [WinterEvent EXCEPT !.is_approximate_time = <<"true">>]}

----------------------------------------------------------------------------
(* Country.                                                                 *)

\* enum Country
Countries ==
    {"ChannelIslands", "England", "Ireland", "IsleOfMan", "NorthernIreland",
     "Scotland", "Wales"}

\* A faulty variant of Country_from_str: a name that is not known is taken
\* for England.
Country_from_str_default(s) ==
    IF s = "Channel Islands" THEN Ok("ChannelIslands")
    ELSE IF s = "Ireland" THEN Ok("Ireland")
    ELSE IF s = "Isle of Man" THEN Ok("IsleOfMan")
    ELSE IF s = "Northern Ireland" THEN Ok("NorthernIreland")
    ELSE IF s = "Scotland" THEN Ok("Scotland")
    ELSE IF s = "Wales" THEN Ok("Wales")
    ELSE Ok("England")

\* impl FromStr for Country
Country_from_str(s) ==
    IF s = "Channel Islands" THEN Ok("ChannelIslands")
    ELSE IF s = "England" THEN Ok("England")
    ELSE IF s = "Ireland" THEN Ok("Ireland")
    ELSE IF s = "Isle of Man" THEN Ok("IsleOfMan")
    ELSE IF s = "Northern Ireland" THEN Ok("NorthernIreland")
    ELSE IF s = "Scotland" THEN Ok("Scotland")
    ELSE IF s = "Wales" THEN Ok("Wales")
    ELSE Err(<<"Unexpected country name", s>>)

\* impl Display for Country
Country_fmt(c) ==
    CASE c = "ChannelIslands" -> "Channel Islands"
      [] c = "England" -> "England"
      [] c = "Ireland" -> "Ireland"
      [] c = "IsleOfMan" -> "Isle of Man"
      [] c = "NorthernIreland" -> "Northern Ireland"
      [] c = "Scotland" -> "Scotland"
      [] c = "Wales" -> "Wales"

\* The strings that are parsed: what each country displays as, and strings
\* that are none of those: another place, other case, other spacing, the
\* names of the variants, the empty string.
CountryStrings ==
    {Country_fmt(c) : c \in Countries} \cup
        {"Cornwall", "england", "ENGLAND", "Isle Of Man", "IsleOfMan",
         "ChannelIslands", "Northern  Ireland", " Wales", "Wales ", "",
         "United Kingdom"}

----------------------------------------------------------------------------
(* DecimalDegrees and its rendering.  An f64 is held exactly, as its sign,   *)
(* its whole part and its fractional part; the fractional part is a whole    *)
(* number of units of 2^-58 written as four limbs in base 2^18, least limb   *)
(* first.  Every f64 of magnitude 2^-6 or more has such a fractional part,   *)
(* and so have the f64 products of it, which are rounded to 53 bits.         *)

Limb == 2^18

\* n * c + carry, limb by limb from limb i on.
RECURSIVE MulLimbs(_, _, _, _)
MulLimbs(n, c, i, carry) ==
    IF i > Len(n) THEN <<>>
    ELSE <<(n[i] * c + carry) % Limb>>
             \o MulLimbs(n, c, i + 1, (n[i] * c + carry) \div Limb)

\* The number of bits of a limb.
BitsOf(v) == Cardinality({k \in 0..17 : 2^k <= v})

BitLenFrom(n, top) == 18 * (top - 1) + BitsOf(n[top])

\* The number of significant bits of n.
BitLen(n) ==
    IF \A i \in 1..Len(n) : n[i] = 0 THEN 0
    ELSE BitLenFrom(n, Max({i \in 1..Len(n) : n[i] # 0}))

\* n with its s low bits, which are r, rounded away: to nearest, a tie to the
\* even neighbour.
RoundAway(n, s, r, odd) ==
    IF r > 2^(s - 1) \/ (r = 2^(s - 1) /\ odd = 1)
    THEN MulLimbs([n EXCEPT ![1] = n[1] - r], 1, 1, 2^s)
    ELSE [n EXCEPT ![1] = n[1] - r]

RoundLow(n, s) ==
    IF s <= 0 THEN n ELSE RoundAway(n, s, n[1] % 2^s, (n[1] \div 2^s) % 2)

\* The f64 nearest to n: n rounded to 53 significant bits.
RoundF64(n) == RoundLow(n, BitLen(n) - 53)

\* c * x as f64 arithmetic computes it, for a small whole c.
mul_f64(c, x) == RoundF64(MulLimbs(x, c, 1, 0))

\* f64::floor of a number of units of 2^-58: the fourth limb counts 2^-4.
floor_f64(n) == n[4] \div 16

\* `as u8` of a float: the value truncated, and saturated at 0 and 255.
as_u8(v) == IF v < 0 THEN 0 ELSE IF v > 255 THEN 255 ELSE v

\* (60.0 * abs_fractional).floor()
minutes_f64(frac) == floor_f64(mul_f64(60, frac))

\* The whole part of p - 60.0 * minutes, -1 when the difference is negative;
\* the difference is exact.
minus_minutes(p, minutes) ==
    IF p[4] < 60 * minutes * 16 THEN 0 - 1
    ELSE (p[4] - 60 * minutes * 16) \div 16

\* 3600.0 * abs_fractional - 60.0 * minutes
seconds_f64(frac, minutes) == minus_minutes(mul_f64(3600, frac), minutes)

\* A faulty variant of DecimalDegrees_parts: the minutes are rounded to the
\* nearest whole number.
DecimalDegrees_parts_rounded(x) ==
    [degrees |-> as_u8(x.whole),
     minutes |-> as_u8(floor_f64([mul_f64(60, x.frac) EXCEPT ![4] = @ + 8])),
     seconds |-> as_u8(seconds_f64(x.frac, minutes_f64(x.frac)))]

\* The three numbers that are written: the sign is dropped by abs().
DecimalDegrees_parts(x) ==
    [degrees |-> as_u8(x.whole),
     minutes |-> as_u8(minutes_f64(x.frac)),
     seconds |-> as_u8(seconds_f64(x.frac, minutes_f64(x.frac)))]

\* The decimal digits of n.
RECURSIVE Digits(_)
Digits(n) ==
    IF n < 10 THEN <<DigitChars[n + 1]>>
    ELSE Append(Digits(n \div 10), DigitChars[(n % 10) + 1])

\* {:02}: at least two digits.
Digits02(n) == IF n < 10 THEN <<"0">> \o Digits(n) ELSE Digits(n)

\* write!(f, "{d}°{m:02}′{s:02}″"): the three signs are written by name.
write_dms(parts) ==
    Digits(parts.degrees) \o <<"DEGREE SIGN">> \o Digits02(parts.minutes)
        \o <<"PRIME">> \o Digits02(parts.seconds) \o <<"DOUBLE PRIME">>

\* impl Display for DecimalDegrees
DecimalDegrees_fmt(x) == write_dms(DecimalDegrees_parts(x))

\* The f64 a decimal literal reads as.
F64(literal, whole, frac) ==
    [literal |-> literal, neg |-> FALSE, whole |-> whole, frac |-> frac]

Negated(x) == [x EXCEPT !.neg = ~x.neg]

\* The values that are rendered: wire coordinates, values next to a whole
\* minute or degree, the ends of the range, one value out of it, and the
\* negative of each.
PositiveDegrees ==
    {
     F64("0.0", 0, <<0, 0, 0, 0>>),
     F64("0.5", 0, <<0, 0, 0, 8>>),
     F64("0.7", 0, <<52416, 209715, 52428, 11>>),
     F64("50.65", 50, <<104448, 157286, 104857, 10>>),
     F64("1.15", 1, <<104832, 157286, 104857, 2>>),
     F64("58.633333", 58, <<67584, 35450, 34951, 10>>),
     F64("49.716666", 49, <<186368, 18471, 122331, 11>>),
     F64("0.9999999999999999", 0, <<262112, 262143, 262143, 15>>),
     F64("179.99999999999997", 179, <<253952, 262143, 262143, 15>>),
     F64("180.0", 180, <<0, 0, 0, 0>>),
     F64("0.016666666666666666", 0, <<69905, 17476, 69905, 0>>),
     F64("90.25", 90, <<0, 0, 0, 4>>),
     F64("2.73", 2, <<125824, 241172, 178257, 11>>),
     F64("0.15", 0, <<104856, 157286, 104857, 2>>),
     F64("256.5", 256, <<0, 0, 0, 8>>)}

SampleDegrees == PositiveDegrees \cup {Negated(x) : x \in PositiveDegrees}

----------------------------------------------------------------------------
(* Coordinates and their rendering.                                         *)

\* x.0 >= 0.0 for an f64: true of every positive value and of both zeros.
ge_zero(x) == ~x.neg \/ (x.whole = 0 /\ \A i \in 1..Len(x.frac) : x.frac[i] = 0)

\* A faulty variant of lon_char: zero is counted as west.
lon_char_zero_west(longitude) ==
    IF ge_zero(longitude) /\ ~ge_zero(Negated(longitude)) THEN "E" ELSE "W"

\* let lon_char = if self.longitude.0 >= 0.0 { 'E' } else { 'W' };
lon_char(longitude) == IF ge_zero(longitude) THEN "E" ELSE "W"

\* impl Display for Coordinates: write!(f, "{lat}N {lon}{lc}", ...)
Coordinates_fmt(c) ==
    DecimalDegrees_fmt(c.latitude) \o <<"N", " ">>
        \o DecimalDegrees_fmt(c.longitude) \o <<lon_char(c.longitude)>>

----------------------------------------------------------------------------
(* The calls.                                                               *)

NoCall == [op |-> "none", wire |-> JNull]

Init ==
    /\ call = NoCall
    /\ ret = Ok(<<>>)
    /\ stderr = <<>>

\* A lunar phase's or a tidal event's dateTime is decoded.
DatetimeWithoutTz ==
    /\ call = NoCall
    /\ \E j \in CivilInputs :
        /\ call' = [op |-> "deserialize_datetime_without_tz", wire |-> j]
        /\ ret' = deserialize_datetime_without_tz(j)
        /\ stderr' = <<>>

\* A tidal event's date is decoded.
DateWithoutTz ==
    /\ call = NoCall
    /\ \E j \in CivilInputs :
        LET r == deserialize_date_without_tz(j)
        IN  /\ call' = [op |-> "deserialize_date_without_tz", wire |-> j]
            /\ ret' = r.result
            /\ stderr' = r.eprintln

\* A height occurrence's dateTime is decoded.
DateTimeUtc ==
    /\ call = NoCall
    /\ \E j \in ZuluInputs :
        /\ call' = [op |-> "DateTime<Utc>::deserialize", wire |-> j]
        /\ ret' = deserialize_DateTime_Utc(j)
        /\ stderr' = <<>>

\* A tidal event's eventType is decoded.
EventType ==
    /\ call = NoCall
    /\ \E j \in CodeInputs :
        /\ call' = [op |-> "TidalEventType::deserialize", wire |-> j]
        /\ ret' = TidalEventType_deserialize(j)
        /\ stderr' = <<>>

\* A lunar phase's lunarPhaseType is decoded.
PhaseType ==
    /\ call = NoCall
    /\ \E j \in CodeInputs :
        /\ call' = [op |-> "LunarPhaseType::deserialize", wire |-> j]
        /\ ret' = LunarPhaseType_deserialize(j)
        /\ stderr' = <<>>

\* stations_from_reader is called with a station document.
StationsFromReader ==
    /\ call = NoCall
    /\ \E doc \in StationsDocs \cup RetypedDocs :
        /\ call' = [op |-> "stations_from_reader", wire |-> doc]
        /\ ret' = stations_from_reader(doc)
        /\ stderr' = <<>>

\* tides_from_reader is called with a prediction document.
TidesFromReader ==
    /\ call = NoCall
    /\ \E a \in 0..MaxElements :
        \E b \in 0..(MaxElements - a) :
          \E c \in 0..(MaxElements - a - b) :
            \E footer \in Footers, lunar \in [1..a -> LunarElements],
               events \in [1..b -> EventElements],
               heights \in [1..c -> HeightElements] :
                LET doc == TidesDoc(footer, lunar, events, heights)
                    r   == tides_from_reader(doc)
                IN  /\ call' = [op |-> "tides_from_reader", wire |-> doc]
                    /\ ret' = r.result
                    /\ stderr' = r.eprintln

\* The caller is done with what the call returned; the next call starts from
\* nothing, as no call leaves anything behind for another.
Drop ==
    /\ call # NoCall
    /\ call' = NoCall
    /\ ret' = Ok(<<>>)
    /\ stderr' = <<>>

\* Two stations are compared.
StationCompare ==
    /\ call = NoCall
    /\ \E a \in SampleStations, b \in SampleStations :
        /\ call' = [op |-> "Station::cmp", wire |-> [pair |-> <<a, b>>]]
        /\ ret' = Ok([eq |-> Station_eq(a, b), cmp |-> Station_cmp(a, b),
                      partial_cmp |-> Station_partial_cmp(a, b)])
        /\ stderr' = <<>>

\* Two tidal events are compared.
TidalEventCompare ==
    /\ call = NoCall
    /\ \E a \in SampleEvents, b \in SampleEvents :
        /\ call' = [op |-> "TidalEvent::cmp", wire |-> [pair |-> <<a, b>>]]
        /\ ret' = Ok([eq |-> TidalEvent_eq(a, b), cmp |-> TidalEvent_cmp(a, b),
                      partial_cmp |-> TidalEvent_partial_cmp(a, b)])
        /\ stderr' = <<>>

\* A string is parsed as a Country.
CountryFromStr ==
    /\ call = NoCall
    /\ \E s \in CountryStrings :
        /\ call' = [op |-> "Country::from_str", wire |-> JStr(s)]
        /\ ret' = Country_from_str(s)
        /\ stderr' = <<>>

\* A Country is displayed, and what it displays as is parsed again.
CountryDisplay ==
    /\ call = NoCall
    /\ \E c \in Countries :
        /\ call' = [op |-> "Country::fmt", wire |-> [country |-> c]]
        /\ ret' = Ok([text |-> Country_fmt(c),
                      parsed |-> Country_from_str(Country_fmt(c))])
        /\ stderr' = <<>>

\* A DecimalDegrees is rendered.
DecimalDegreesDisplay ==
    /\ call = NoCall
    /\ \E x \in SampleDegrees :
        /\ call' = [op |-> "DecimalDegrees::fmt", wire |-> [degrees |-> x]]
        /\ ret' = Ok([parts |-> DecimalDegrees_parts(x),
                      text |-> DecimalDegrees_fmt(x)])
        /\ stderr' = <<>>

\* Coordinates are rendered.
CoordinatesDisplay ==
    /\ call = NoCall
    /\ \E lon \in SampleDegrees, lat \in SampleDegrees :
        /\ call' = [op |-> "Coordinates::fmt",
                    wire |-> [longitude |-> lon, latitude |-> lat]]
        /\ ret' = Ok(Coordinates_fmt([longitude |-> lon, latitude |-> lat]))
        /\ stderr' = <<>>

Next ==
    \/ DatetimeWithoutTz
    \/ DateWithoutTz
    \/ DateTimeUtc
    \/ EventType
    \/ PhaseType
    \/ StationsFromReader
    \/ TidesFromReader
    \/ StationCompare
    \/ TidalEventCompare
    \/ CountryFromStr
    \/ CountryDisplay
    \/ DecimalDegreesDisplay
    \/ CoordinatesDisplay
    \/ Drop

Spec == Init /\ [][Next]_vars

----------------------------------------------------------------------------
(* Properties of the datetime decoders.                                     *)

\* The instant a civil date and time of day name when read as UTC.
InstantOf(d, t) ==
    [days |-> DaysFromCivil(d[1], d[2], d[3]),
     secs |-> t[1] * 3600 + t[2] * 60 + t[3], nanos |-> 0]

SameInstant(dt, inst) ==
    dt.days = inst.days /\ dt.secs = inst.secs /\ dt.nanos = inst.nanos

\* The wall clock of a date and time of day `hours` hours later.
WallLater(d, t, hours) ==
    WallOf(DaysFromCivil(d[1], d[2], d[3]),
           t[1] * 3600 + t[2] * 60 + t[3] + hours * 3600)

\* Whether London is on summer time at the instant the date and time name.
OnSummerTime(d, t) ==
    LondonOffset(InstantOf(d, t).days, InstantOf(d, t).secs) = 3600

DatetimeCall(text) ==
    call = [op |-> "deserialize_datetime_without_tz", wire |-> JStr(text)]

ZuluCall(text) ==
    call = [op |-> "DateTime<Utc>::deserialize", wire |-> JStr(text)]

\* The valid civil datetimes, bare or with a fraction of digits: the text,
\* and the date and time of day it is made of.
CivilCases ==
    {[text |-> CivilText(d, t) \o x, date |-> d, time |-> t] :
        d \in SampleDates, t \in SampleTimes, x \in {<<>>} \cup DigitSuffixes}

\* C1, as the specification states it: a valid civil datetime decodes to the
\* instant it names as UTC, attached to Europe/London, so that the decoded
\* wall clock is the wire's in winter and one hour later in summer.
C1_AttachedToLondon ==
    call.op = "deserialize_datetime_without_tz" =>
        \A c \in CivilCases :
            DatetimeCall(c.text) =>
                /\ ret.ok
                /\ SameInstant(ret.val, InstantOf(c.date, c.time))
                /\ ret.val.tz = "Europe/London"
                /\ WallClock(ret.val) =
                       WallLater(c.date, c.time,
                                 IF OnSummerTime(c.date, c.time) THEN 1 ELSE 0)

\* C1: the case the claim is about, a summer datetime decoded: the instant is
\* the wire's read as UTC.
C1_SummerDecoded ==
    /\ DatetimeCall(CivilText(<<2025, 8, 17>>, <<5, 14, 18>>))
    /\ ret.ok
    /\ SameInstant(ret.val, InstantOf(<<2025, 8, 17>>, <<5, 14, 18>>))

\* C2: a valid civil datetime D and D followed by "." and any non-empty digit
\* string both decode, to the one instant D names: the fraction is dropped,
\* never rounded into the seconds.
C2_FractionDiscarded ==
    call.op = "deserialize_datetime_without_tz" =>
        \A c \in CivilCases :
            DatetimeCall(c.text) =>
                ret.ok /\ SameInstant(ret.val, InstantOf(c.date, c.time))

\* C2: a datetime with the fraction ".99" on the last second of a day has
\* been decoded.
C2_FractionDecoded ==
    /\ DatetimeCall(CivilText(<<2025, 12, 31>>, <<23, 59, 59>>) \o <<".", "9", "9">>)
    /\ ret.ok

ZeroSuffixes == {x \in DigitSuffixes : \A i \in 2..Len(x) : x[i] = "0"}

\* The Zulu-suffixed texts, each with the civil text of the same UTC date and
\* time, and whether its seconds are whole.
ZuluCases ==
    {[zulu |-> CivilText(d, t) \o x \o <<"Z">>, civil |-> CivilText(d, t) \o x,
      whole |-> x \in {<<>>} \cup ZeroSuffixes] :
        d \in SampleDates, t \in SampleTimes, x \in {<<>>} \cup DigitSuffixes}

----------------------------------------------------------------------------
(* Properties of the prediction document.                                   *)

TidesCall == call.op = "tides_from_reader"

\* The date of an instant on the Europe/London calendar.
LondonDate(dt) == DateOf(WallClock(with_timezone(dt, "Europe/London")))

\* C4, as the specification states it: a decoded event's calendar date is the
\* date of its instant in Europe/London, whatever the wire's "date" says.
C4_DateFromLondonInstant ==
    (TidesCall /\ ret.ok) =>
        \A i \in 1..Len(ret.val.tidal_event_list) :
            /\ ret.val.tidal_event_list[i].date =
                   LondonDate(ret.val.tidal_event_list[i].date_time)
            /\ TidalEvent_date(ret.val.tidal_event_list[i]) =
                   LondonDate(ret.val.tidal_event_list[i].date_time)

\* C4: an event at 23:30 UTC of a summer day has been decoded.
C4_LateSummerEvent ==
    /\ TidesCall
    /\ ret.ok
    /\ \E i \in 1..Len(ret.val.tidal_event_list) :
           SameInstant(ret.val.tidal_event_list[i].date_time,
                       InstantOf(<<2025, 8, 17>>, <<23, 30, 0>>))

----------------------------------------------------------------------------
(* Properties of the enum decoders.                                         *)

Codes == (0 - MaxCode)..MaxCode

\* C5: code 0 decodes to HighWater, code 1 to LowWater, and every other
\* integer, negative ones included, to an error.
C5_EventTypeCodes ==
    \A n \in Codes :
        call = [op |-> "TidalEventType::deserialize", wire |-> JInt(n)] =>
            /\ n = 0 => ret = Ok("HighWater")
            /\ n = 1 => ret = Ok("LowWater")
            /\ n \notin {0, 1} => ~ret.ok

\* C5: the codes 2 and -1 have been refused.
C5_CodeRefused ==
    /\ call.op = "TidalEventType::deserialize"
    /\ call.wire \in {JInt(2), JInt(0 - 1)}
    /\ ~ret.ok

\* C6: the codes 1, 2, 3, 4 decode to NewMoon, FirstQuarter, FullMoon,
\* LastQuarter, and every other integer to an error.
C6_LunarPhaseCodes ==
    \A n \in Codes :
        call = [op |-> "LunarPhaseType::deserialize", wire |-> JInt(n)] =>
            /\ n = 1 => ret = Ok("NewMoon")
            /\ n = 2 => ret = Ok("FirstQuarter")
            /\ n = 3 => ret = Ok("FullMoon")
            /\ n = 4 => ret = Ok("LastQuarter")
            /\ n \notin 1..4 => ~ret.ok

\* C6: the codes 0 and 5 have been refused.
C6_CodeRefused ==
    /\ call.op = "LunarPhaseType::deserialize"
    /\ call.wire \in {JInt(0), JInt(5)}
    /\ ~ret.ok

----------------------------------------------------------------------------
(* Properties of the station document.                                      *)

StationsCall == call.op = "stations_from_reader"

\* The features of the document the call was made with, <<>> when it has no
\* array of them.
WireFeatures ==
    IF T(call.wire) = "obj" /\ T(V(call.wire).features) = "arr"
    THEN V(V(call.wire).features) ELSE <<>>

\* A JSON number in millionths.
WireNumber(j) == IF T(j) = "int" THEN V(j) * 1000000 ELSE V(j)

WireProperties(f) == V(V(f).properties)
WireCoordinates(f) == V(V(V(f).geometry).coordinates)

\* The station is the wire feature's, field by field.
StationMatches(station, f) ==
    /\ station.id = V(WireProperties(f).Id)
    /\ station.name = V(WireProperties(f).Name)
    /\ station.country = V(WireProperties(f).Country)
    /\ station.continuous_heights_available =
           V(WireProperties(f).ContinuousHeightsAvailable)
    /\ station.location.longitude = WireNumber(WireCoordinates(f)[1])
    /\ station.location.latitude = WireNumber(WireCoordinates(f)[2])

\* C7: a document of well-formed features decodes to one Station per feature,
\* in order, whose id is the wire Id as text, whose name, country and flag are
\* the wire's, and whose longitude is the first coordinate and latitude the
\* second.
C7_StationFromFeature ==
    (StationsCall /\ T(call.wire) = "obj"
        /\ T(V(call.wire).features) = "arr"
        /\ \A i \in 1..Len(WireFeatures) : WireFeatures[i] \in WellFormedFeatures)
    => /\ ret.ok
       /\ Len(ret.val) = Len(WireFeatures)
       /\ \A i \in 1..Len(ret.val) : StationMatches(ret.val[i], WireFeatures[i])

\* C7: stations with the ids "0053" and "0297A" have been decoded, the first
\* at longitude -1.15, latitude 50.65.
C7_IdsKept ==
    /\ StationsCall
    /\ ret.ok
    /\ Len(ret.val) = 2
    /\ ret.val[1].id = <<"0", "0", "5", "3">>
    /\ ret.val[1].location = [longitude |-> -1150000, latitude |-> 50650000]
    /\ ret.val[2].id = <<"0", "2", "9", "7", "A">>

\* C8, as the specification states it: a feature whose country is none of
\* the seven recognised makes the whole call fail.
C8_UnknownCountryFails ==
    (StationsCall
        /\ \E i \in 1..Len(WireFeatures) :
               WireFeatures[i] \in UnknownCountryFeatures)
    => ~ret.ok

\* C8: a document whose only flaw is the country "Cornwall" has been decoded
\* into stations, one of them of that country.
C8_CornwallStation ==
    /\ StationsCall
    /\ ret.ok
    /\ \E i \in 1..Len(ret.val) : ret.val[i].country = "Cornwall"

\* C9: a malformed feature anywhere in the document makes the call return an
\* error, and so no list of stations.
C9_StationsAllOrNothing ==
    (StationsCall
        /\ \E i \in 1..Len(WireFeatures) : WireFeatures[i] \in MalformedFeatures)
    => /\ ~ret.ok
       /\ ret.err.variant = "Parse"

\* C9: a document with a valid feature first and a malformed one after it
\* has been refused.
C9_MalformedAfterValid ==
    /\ StationsCall
    /\ Len(WireFeatures) = 2
    /\ WireFeatures[1] \in WellFormedFeatures
    /\ WireFeatures[2] \in MalformedFeatures
    /\ ~ret.ok

----------------------------------------------------------------------------
(* All-or-nothing decoding of the prediction document.                      *)

WireList(key) == V(V(call.wire)[key])

HasMalformed(key, malformed) ==
    \E i \in 1..Len(WireList(key)) : WireList(key)[i] \in malformed

\* C10: a malformed element in any of the three lists makes the call return
\* the Parse error, and so no TidePredictions.
C10_TidesAllOrNothing ==
    (TidesCall
        /\ \/ HasMalformed("lunarPhaseList", MalformedLunar)
           \/ HasMalformed("tidalEventList", MalformedEvents)
           \/ HasMalformed("tidalHeightOccurrenceList", MalformedHeights))
    => /\ ~ret.ok
       /\ ret.err.variant = "Parse"

\* C10: a document whose only flaw is its last element, a height occurrence
\* after a valid lunar phase, has been refused.
C10_LastElementMalformed ==
    /\ TidesCall
    /\ V(call.wire).footerNote # JMissing
    /\ Len(WireList("lunarPhaseList")) = 1
    /\ WireList("lunarPhaseList")[1] \in WellFormedLunar
    /\ Len(WireList("tidalEventList")) = 0
    /\ Len(WireList("tidalHeightOccurrenceList")) = 1
    /\ WireList("tidalHeightOccurrenceList")[1] \in MalformedHeights
    /\ ~ret.ok

----------------------------------------------------------------------------
(* Properties of the lists of the two documents.                            *)

\* A prediction document valid in all but, possibly, its height occurrences.
ValidButHeights ==
    /\ TidesCall
    /\ V(call.wire).footerNote # JMissing
    /\ \A i \in 1..Len(WireList("lunarPhaseList")) :
           WireList("lunarPhaseList")[i] \in WellFormedLunar
    /\ \A i \in 1..Len(WireList("tidalEventList")) :
           WireList("tidalEventList")[i] \in WellFormedEvents

\* C11: a document whose height list is empty and whose other fields are
\* valid decodes; the height list of the result is empty and its lunar phases
\* and events are the wire's, one for one.
C11_EmptyHeightList ==
    (ValidButHeights /\ WireList("tidalHeightOccurrenceList") = <<>>) =>
        /\ ret.ok
        /\ ret.val.tidal_height_occurrence_list = <<>>
        /\ Len(ret.val.lunar_phase_list) = Len(WireList("lunarPhaseList"))
        /\ Len(ret.val.tidal_event_list) = Len(WireList("tidalEventList"))
        /\ \A i \in 1..Len(ret.val.lunar_phase_list) :
               Ok(ret.val.lunar_phase_list[i]) =
                   LunarPhase_deserialize(WireList("lunarPhaseList")[i])
        /\ \A i \in 1..Len(ret.val.tidal_event_list) :
               Ok(ret.val.tidal_event_list[i]) =
                   TidalEvent_deserialize(WireList("tidalEventList")[i]).result

\* C11: a document of one lunar phase, one event and no height occurrence
\* has been decoded.
C11_NoHeightsDecoded ==
    /\ ValidButHeights
    /\ WireList("tidalHeightOccurrenceList") = <<>>
    /\ Len(WireList("lunarPhaseList")) = 1
    /\ Len(WireList("tidalEventList")) = 1
    /\ ret.ok

\* A station document all of whose features are well formed.
WellFormedStationsCall ==
    /\ StationsCall
    /\ T(call.wire) = "obj"
    /\ T(V(call.wire).features) = "arr"
    /\ \A i \in 1..Len(WireFeatures) : WireFeatures[i] \in WellFormedFeatures

\* C12: a well-formed document of n features decodes to n stations, the i-th
\* from the i-th feature, whether or not the ids ascend or repeat.
C12_OrderPreserved ==
    WellFormedStationsCall =>
        /\ ret.ok
        /\ Len(ret.val) = Len(WireFeatures)
        /\ \A i \in 1..Len(WireFeatures) :
               /\ ret.val[i].id = V(WireProperties(WireFeatures[i]).Id)
               /\ ret.val[i].name = V(WireProperties(WireFeatures[i]).Name)

\* C12: a document whose ids descend, "1603" then "0053", has been decoded
\* in that order.
C12_DescendingIds ==
    /\ WellFormedStationsCall
    /\ ret.ok
    /\ Len(ret.val) = 2
    /\ ret.val[1].id = <<"1", "6", "0", "3">>
    /\ ret.val[2].id = <<"0", "0", "5", "3">>

\* C12: a document that holds the same feature twice has been decoded into two
\* stations.
C12_RepeatedIds ==
    /\ WellFormedStationsCall
    /\ ret.ok
    /\ Len(ret.val) = 2
    /\ ret.val[1].id = ret.val[2].id

----------------------------------------------------------------------------
(* Properties of equality and ordering.                                     *)

Left == call.wire.pair[1]
Right == call.wire.pair[2]

\* x comes before y byte by byte: they agree on the first k characters, and
\* there x ends and y goes on, or x has the lesser character.
ComesBefore(x, y) ==
    \E k \in 0..Len(x) :
        /\ k <= Len(y)
        /\ SubSeq(x, 1, k) = SubSeq(y, 1, k)
        /\ \/ k = Len(x) /\ k < Len(y)
           \/ k < Len(x) /\ k < Len(y) /\ CharRank(x[k + 1]) < CharRank(y[k + 1])

\* C13: two stations are equal exactly when their ids are the same string,
\* and are ordered as their ids are as strings, Equal exactly when they are
\* equal, whatever their other fields.
C13_StationById ==
    call.op = "Station::cmp" =>
        /\ ret.val.eq = (Left.id = Right.id)
        /\ (ret.val.cmp = "Less") = ComesBefore(Left.id, Right.id)
        /\ (ret.val.cmp = "Greater") = ComesBefore(Right.id, Left.id)
        /\ (ret.val.cmp = "Equal") = ret.val.eq
        /\ ret.val.partial_cmp = <<ret.val.cmp>>

\* C13: two stations of the same id and different names have been compared,
\* and found equal.
C13_SameIdOtherName ==
    /\ call.op = "Station::cmp"
    /\ Left.id = Right.id
    /\ Left.name # Right.name
    /\ ret.val.eq
    /\ ret.val.cmp = "Equal"

\* C13: the ids "0053" and "53" have been compared, and found different.
C13_LeadingZeros ==
    /\ call.op = "Station::cmp"
    /\ Left.id = <<"0", "0", "5", "3">>
    /\ Right.id = <<"5", "3">>
    /\ ~ret.val.eq
    /\ ret.val.cmp = "Less"

\* x is an earlier instant than y.
Earlier(x, y) ==
    \/ x.days < y.days
    \/ x.days = y.days /\ x.secs < y.secs
    \/ x.days = y.days /\ x.secs = y.secs /\ x.nanos < y.nanos

\* C14: two tidal events are equal exactly when their instants are the same,
\* and are ordered by instant, Equal exactly when they are equal, whatever
\* their other fields.
C14_TidalEventByInstant ==
    call.op = "TidalEvent::cmp" =>
        /\ ret.val.eq = SameInstant(Left.date_time, Right.date_time)
        /\ (ret.val.cmp = "Less") = Earlier(Left.date_time, Right.date_time)
        /\ (ret.val.cmp = "Greater") = Earlier(Right.date_time, Left.date_time)
        /\ (ret.val.cmp = "Equal") = ret.val.eq
        /\ ret.val.partial_cmp = <<ret.val.cmp>>

\* C14: two events of the same instant and different heights have been
\* compared, and found equal.
C14_SameInstantOtherHeight ==
    /\ call.op = "TidalEvent::cmp"
    /\ SameInstant(Left.date_time, Right.date_time)
    /\ Left.height # Right.height
    /\ ret.val.eq
    /\ ret.val.cmp = "Equal"

----------------------------------------------------------------------------
(* Properties of the effects and the errors of decoding.                    *)

\* C16, as the specification states it: no call writes anything to standard
\* error, whether it succeeds or fails.
C16_NothingWritten == stderr = <<>>

\* C16: a prediction document has been refused for the date of one of its
\* events, and a line has been written to standard error.
C16_LineWritten ==
    /\ TidesCall
    /\ HasMalformed("tidalEventList", MalformedEvents)
    /\ ~ret.ok
    /\ stderr # <<>>

\* The valid civil datetimes followed by a suffix that itself holds a '.'.
DottedCases ==
    {[text |-> CivilText(d, t) \o x, date |-> d, time |-> t] :
        d \in SampleDates, t \in SampleTimes, x \in DottedSuffixes}

\* C17, as the specification states it: the string is cut at its first '.',
\* so a valid datetime followed by "." and any suffix, one that holds a '.'
\* included, decodes to the instant the datetime names.
C17_CutAtFirstDot ==
    call.op = "deserialize_datetime_without_tz" =>
        \A c \in CivilCases \cup DottedCases :
            DatetimeCall(c.text) =>
                ret.ok /\ SameInstant(ret.val, InstantOf(c.date, c.time))

\* C17: a valid datetime followed by ".5.5" has been refused.
C17_SecondDotRefused ==
    /\ DatetimeCall(CivilText(<<2025, 8, 17>>, <<5, 14, 18>>) \o <<".", "5", ".", "5">>)
    /\ ~ret.ok

\* What an enum decoder's error says is acceptable.
AcceptableCodes(op) ==
    IF op = "TidalEventType::deserialize" THEN "an integer either 0 or 1"
    ELSE "an integer from 1 to 4, inclusive."

ValidCodes(op) == IF op = "TidalEventType::deserialize" THEN {0, 1} ELSE 1..4

EnumCall ==
    /\ call.op \in {"TidalEventType::deserialize", "LunarPhaseType::deserialize"}
    /\ T(call.wire) = "int"

\* C18, as the specification states it: for every integer that is no code of
\* the enum, negative ones included, the error names the acceptable codes and
\* the offending value.
C18_ErrorNamesCodesAndValue ==
    (EnumCall /\ V(call.wire) \notin ValidCodes(call.op)) =>
        /\ ~ret.ok
        /\ ret.err.kind = "invalid_value"
        /\ ret.err.unexp = V(call.wire)
        /\ ret.err.exp = AcceptableCodes(call.op)

\* C18: the code -1 has been refused with an error that names the value and,
\* as what was expected, the integer type and not the enum's codes.
C18_NegativeRefused ==
    /\ EnumCall
    /\ V(call.wire) = 0 - 1
    /\ ~ret.ok
    /\ ret.err.unexp = 0 - 1
    /\ ret.err.exp = "u64"

----------------------------------------------------------------------------
(* Properties of Country.                                                   *)

\* The seven display strings, as the specification lists them.
DisplayStrings ==
    [ChannelIslands |-> "Channel Islands", England |-> "England",
     Ireland |-> "Ireland", IsleOfMan |-> "Isle of Man",
     NorthernIreland |-> "Northern Ireland", Scotland |-> "Scotland",
     Wales |-> "Wales"]

\* C19: each of the seven countries displays as its own string, no two as the
\* same, and parses back from it; every other string is refused.
C19_CountryBijection ==
    /\ call.op = "Country::fmt" =>
           /\ call.wire.country \in DOMAIN DisplayStrings
           /\ ret.val.text = DisplayStrings[call.wire.country]
           /\ ret.val.parsed = Ok(call.wire.country)
           /\ \A c \in Countries \ {call.wire.country} :
                  DisplayStrings[c] # ret.val.text
    /\ call.op = "Country::from_str" =>
           /\ \A c \in Countries :
                  V(call.wire) = DisplayStrings[c] => ret = Ok(c)
           /\ (\A c \in Countries : V(call.wire) # DisplayStrings[c]) => ~ret.ok

\* C19: "Cornwall" has been refused.
C19_CornwallRefused ==
    /\ call = [op |-> "Country::from_str", wire |-> JStr("Cornwall")]
    /\ ~ret.ok

\* C19: the Isle of Man has been displayed and parsed back.
C19_IsleOfManRoundTrip ==
    /\ call.op = "Country::fmt"
    /\ call.wire.country = "IsleOfMan"
    /\ ret.val.parsed = Ok("IsleOfMan")

----------------------------------------------------------------------------
(* Properties of the rendering of DecimalDegrees.                           *)

Rendered == call.wire.degrees

\* The value is in the geographic range: its magnitude is at most 180.
InRange(x) ==
    x.whole < 180 \/ (x.whole = 180 /\ \A i \in 1..Len(x.frac) : x.frac[i] = 0)

\* The whole seconds of arc in the fractional part, in exact arithmetic.
ExactSeconds(x) == floor_f64(MulLimbs(x.frac, 3600, 1, 0))

ShownSeconds(parts) == 60 * parts.minutes + parts.seconds

\* What holds of every rendering in range but the exact value of the minutes
\* and seconds: it does not fail, the degrees are the whole part, minutes and
\* seconds are between 0 and 59, the text is the three numbers, and the sign
\* plays no part.
RenderingInRange ==
    /\ ret.ok
    /\ ret.val.parts.degrees = Rendered.whole
    /\ ret.val.parts.minutes \in 0..59
    /\ ret.val.parts.seconds \in 0..59
    /\ ret.val.text = write_dms(ret.val.parts)
    /\ ret.val.text = DecimalDegrees_fmt(Negated(Rendered))

\* C20, amended: for every value in range the rendering does not fail, shows
\* the whole part as degrees and minutes and seconds between 0 and 59, and is
\* the same for x and -x; the minutes and seconds shown are the truncated
\* ones or, where the f64 product rounds up to a whole number, one second of
\* arc more.
C20_TruncatedOrNextSecond ==
    (call.op = "DecimalDegrees::fmt" /\ InRange(Rendered)) =>
        /\ RenderingInRange
        /\ ShownSeconds(ret.val.parts) - ExactSeconds(Rendered) \in {0, 1}

\* C20: 0.7, whose f64 is a little under 0.7 and whose product with 60 rounds
\* to 42, has been rendered as 42 minutes and no seconds, one second of arc
\* more than the 41 minutes 59 seconds of truncation.
C20_RoundedUpToWholeMinute ==
    /\ call.op = "DecimalDegrees::fmt"
    /\ Rendered.literal = "0.7"
    /\ ExactSeconds(Rendered) = 2519
    /\ ret.val.parts = [degrees |-> 0, minutes |-> 42, seconds |-> 0]

\* C20, as the specification states it: the minutes are the truncated value
\* of 60 times the fractional part and the seconds the truncated remainder.
C20_Truncated ==
    (call.op = "DecimalDegrees::fmt" /\ InRange(Rendered)) =>
        /\ RenderingInRange
        /\ ret.val.parts.minutes = ExactSeconds(Rendered) \div 60
        /\ ret.val.parts.seconds = ExactSeconds(Rendered) % 60

----------------------------------------------------------------------------
(* Properties of the rendering of Coordinates.                              *)

CoordinatesCall == call.op = "Coordinates::fmt"

IsZero(x) == x.whole = 0 /\ \A i \in 1..Len(x.frac) : x.frac[i] = 0

\* The raw value is below zero: it has the minus sign and is not zero.
IsNegative(x) == x.neg /\ ~IsZero(x)

Hemisphere(x) == IF IsNegative(x) THEN "W" ELSE "E"

\* C21: coordinates render, without failing, as the rendering of the
\* latitude, "N" for every latitude, a space, the rendering of the longitude
\* and a letter that is "W" when the raw longitude is negative and "E" when
\* it is zero or more.
C21_LatitudeNorthLongitudeBySign ==
    CoordinatesCall =>
        /\ ret.ok
        /\ ret.val = DecimalDegrees_fmt(call.wire.latitude) \o <<"N", " ">>
                       \o DecimalDegrees_fmt(call.wire.longitude)
                       \o <<Hemisphere(call.wire.longitude)>>

\* C21: a southern latitude and a longitude of exactly zero have been
\* rendered, with "N" after the latitude and "E" after the longitude.
C21_SouthOfEquatorOnMeridian ==
    /\ CoordinatesCall
    /\ IsNegative(call.wire.latitude)
    /\ IsZero(call.wire.longitude)
    /\ ret.ok
    /\ ret.val[Len(ret.val)] = "E"
    /\ \E i \in 1..Len(ret.val) : ret.val[i] = "N" /\ ret.val[i + 1] = " "

\* C21: a negative longitude has been rendered with "W", its digits those of
\* the positive value.
C21_WestLongitude ==
    /\ CoordinatesCall
    /\ call.wire.longitude.literal = "1.15"
    /\ call.wire.longitude.neg
    /\ call.wire.latitude.literal = "50.65"
    /\ ~call.wire.latitude.neg
    /\ ret.val = <<"5", "0", "DEGREE SIGN", "3", "8", "PRIME", "5", "9",
                   "DOUBLE PRIME", "N", " ", "1", "DEGREE SIGN", "0", "8",
                   "PRIME", "5", "9", "DOUBLE PRIME", "W">>

----------------------------------------------------------------------------
(* Properties of the type discriminators of a station document.             *)

\* The document decoded is a well-formed one whose type discriminators may
\* have been replaced.
RetypedCall == StationsCall /\ call.wire \in RetypedDocs

\* The feature with the discriminators the service sends.
AsServed(f) == retype_feature(f, JStr("Feature"), JStr("Point"))

\* The document with the discriminators the service sends.
DocAsServed(doc) ==
    JObj([type |-> JStr("FeatureCollection"),
          features |-> JArr([i \in 1..Len(V(V(doc).features))
                                |-> AsServed(V(V(doc).features)[i])])])

\* C22: a well-formed station document in which the type of the document,
\* of any feature or of any geometry is another string decodes, without
\* error, to the stations that the document with the original types decodes
\* to.
C22_TypesIgnored ==
    RetypedCall =>
        /\ ret.ok
        /\ ret = stations_from_reader(DocAsServed(call.wire))

\* C22: a document of two features has been decoded to two stations, the
\* types of the document, of a feature and of a geometry being other strings.
C22_AllThreeReplaced ==
    /\ RetypedCall
    /\ V(call.wire).type # JStr("FeatureCollection")
    /\ Len(WireFeatures) = 2
    /\ V(WireFeatures[1]).type = JStr("Other")
    /\ V(V(WireFeatures[2]).geometry).type = JStr("Polygon")
    /\ ret.ok
    /\ Len(ret.val) = 2

----------------------------------------------------------------------------
(* Calls from several threads.  Each thread calls stations_from_reader or   *)
(* tides_from_reader with a reader of its own; here call and ret hold one    *)
(* entry for each thread, and stderr is the standard error of the process,   *)
(* which all threads share and which nothing clears.  A call is a sequence   *)
(* of steps that interleave with those of the other threads: it begins, it   *)
(* writes each line that its decoding writes, it returns.                    *)

MaxThreads == 2
MaxLines == 2

Threads == 1..MaxThreads

Idle == [op |-> "none", wire |-> JNull, pc |-> "idle", written |-> 0]

SingleEventDocs ==
    {TidesDoc(JStr("High waters - important note."), <<>>, <<e>>, <<>>) :
        e \in EventElements}

\* The calls the threads make: station documents that decode and that fail,
\* and prediction documents of one event, well-formed or malformed.
ThreadCalls ==
    {[op |-> "stations_from_reader", wire |-> d] :
        d \in {JObj([type |-> JStr("FeatureCollection"),
                     features |-> JArr(<<Sandown>>)]),
               JNull}}
        \cup {[op |-> "tides_from_reader", wire |-> d] : d \in SingleEventDocs}

\* What a call does when no other call runs: its result and the lines it
\* writes to standard error.
alone(c) ==
    IF c.op = "stations_from_reader"
    THEN [result |-> stations_from_reader(c.wire), eprintln |-> <<>>]
    ELSE tides_from_reader(c.wire)

\* The lines that the calls of threads 1..t have still to write.
RECURSIVE Pending(_, _)
Pending(calls, t) ==
    IF t = 0 THEN 0
    ELSE Pending(calls, t - 1)
           + (IF calls[t].pc = "decoding"
              THEN Len(alone(calls[t]).eprintln) - calls[t].written ELSE 0)

InitConcurrent ==
    /\ call = [t \in Threads |-> Idle]
    /\ ret = [t \in Threads |-> Ok(<<>>)]
    /\ stderr = <<>>

\* Thread t calls a reader function on a document of its own.
Begin(t) ==
    /\ call[t].pc = "idle"
    /\ \E c \in ThreadCalls :
        /\ Len(stderr) + Pending(call, MaxThreads) + Len(alone(c).eprintln)
              <= MaxLines
        /\ call' = [call EXCEPT ![t] = [op |-> c.op, wire |-> c.wire,
                                        pc |-> "decoding", written |-> 0]]
    /\ UNCHANGED <<ret, stderr>>

\* The decoding of thread t reaches an eprintln!.
Write(t) ==
    /\ call[t].pc = "decoding"
    /\ call[t].written < Len(alone(call[t]).eprintln)
    /\ stderr' = Append(stderr, alone(call[t]).eprintln[call[t].written + 1])
    /\ call' = [call EXCEPT ![t].written = @ + 1]
    /\ UNCHANGED ret

\* The call of thread t returns.
Return(t) ==
    /\ call[t].pc = "decoding"
    /\ call[t].written = Len(alone(call[t]).eprintln)
    /\ ret' = [ret EXCEPT ![t] = alone(call[t]).result]
    /\ call' = [call EXCEPT ![t].pc = "returned"]
    /\ UNCHANGED stderr

\* Thread t drops what its call returned.
Forget(t) ==
    /\ call[t].pc = "returned"
    /\ call' = [call EXCEPT ![t] = Idle]
    /\ ret' = [ret EXCEPT ![t] = Ok(<<>>)]
    /\ UNCHANGED stderr

NextConcurrent ==
    \E t \in Threads :
        \/ Begin(t)
        \/ Write(t)
        \/ Return(t)
        \/ Forget(t)

SpecConcurrent == InitConcurrent /\ [][NextConcurrent]_vars

----------------------------------------------------------------------------
(* Properties of concurrent calls.                                          *)

Returned(t) == call[t].pc = "returned"

\* Every call that has returned has returned what it returns alone on the
\* same document, whatever the other threads did meanwhile.
C15_ReturnsAsAlone ==
    \A t \in Threads : Returned(t) => ret[t] = alone(call[t]).result

\* C15: concurrent calls are independent: each returns the value or error it
\* returns alone, and no step of a call has written state that the calls
\* share, so the standard error of the process is as it was.
C15_Independent ==
    /\ C15_ReturnsAsAlone
    /\ stderr = <<>>

\* C15: a call has written to the shared standard error while the call of
\* another thread is being decoded.
C15_SharedWriteDuringOtherCall ==
    \E t \in Threads, u \in Threads :
        /\ t # u
        /\ call[t].pc = "decoding"
        /\ call[t].written > 0
        /\ stderr # <<>>
        /\ call[u].pc = "decoding"

====
